---------------------------- MODULE Spec2Model ----------------------------
(***************************************************************************)
(* Model of epoch_calculator.py: the epoch form (EpochCalculator), the     *)
(* background directory listing (ImageLoaderThread) and the image grid     *)
(* with its thumbnail cache (ImageViewer).                                 *)
(*                                                                         *)
(* Text is a sequence of one-character strings, so that int(), str(),      *)
(* str.lower(), str.endswith() and the "%.2f" format are computed and not  *)
(* assumed.  A file system path is a sequence of names (os.path.join       *)
(* appends a name).                                                        *)
(***************************************************************************)
EXTENDS Integers, Sequences, FiniteSets, TLC

VARIABLES
    images_entry,       \* EpochCalculator.images_entry text
    repeats_entry,      \* EpochCalculator.repeats_entry text
    batch_entry,        \* EpochCalculator.batch_entry text
    steps_entry,        \* EpochCalculator.steps_entry text
    result_label,       \* EpochCalculator.result_label text
    image_paths,        \* ImageViewer.image_paths
    image_cache,        \* module-level image_cache (keys; the value is the thumbnail of the key)
    grid_layout,        \* widgets held by ImageViewer.grid_layout
    image_count_label,  \* ImageViewer.image_count_label text
    threads,            \* every ImageLoaderThread created so far, in creation order
    pending,            \* image_loaded_signal emissions queued for the UI thread
    dialog,             \* the "Select Dataset Folder" dialog
    decodes,            \* per path: QImageReader.read() calls
    requests,           \* per path: load_and_cache_image calls
    rendered,           \* widgets added by the latest display_images call
    ev                  \* the handler that ran last, with its arguments

vars == <<images_entry, repeats_entry, batch_entry, steps_entry, result_label,
          image_paths, image_cache, grid_layout, image_count_label, threads,
          pending, dialog, decodes, requests, rendered, ev>>

formVars == <<images_entry, repeats_entry, batch_entry, steps_entry, result_label>>

viewerVars == <<image_paths, image_cache, grid_layout, image_count_label, threads,
                pending, dialog, decodes, requests, rendered>>

-----------------------------------------------------------------------------
(* Characters and text                                                     *)

DigitChars == <<"0", "1", "2", "3", "4", "5", "6", "7", "8", "9">>

IsDigit(c) == \E i \in 1..10 : DigitChars[i] = c

DigitVal(c) == (CHOOSE i \in 1..10 : DigitChars[i] = c) - 1

IsSpace(c) == c = " "

UpperChars == <<"A", "B", "C", "D", "E", "F", "G", "H", "I", "J", "K", "L", "M",
                "N", "O", "P", "Q", "R", "S", "T", "U", "V", "W", "X", "Y", "Z">>

LowerChars == <<"a", "b", "c", "d", "e", "f", "g", "h", "i", "j", "k", "l", "m",
                "n", "o", "p", "q", "r", "s", "t", "u", "v", "w", "x", "y", "z">>

\* the lower-case letter of every upper-case letter
LowerMap ==
    [c \in {UpperChars[i] : i \in 1..Len(UpperChars)} |->
        LowerChars[CHOOSE i \in 1..Len(UpperChars) : UpperChars[i] = c]]

\* str.lower() on one character
LowerChar(c) == IF c \in DOMAIN LowerMap THEN LowerMap[c] ELSE c

\* str.lower()
Lower(s) == [i \in 1..Len(s) |-> LowerChar(s[i])]

\* str.endswith(suffix)
EndsWith(s, suffix) ==
    /\ Len(s) >= Len(suffix)
    /\ SubSeq(s, Len(s) - Len(suffix) + 1, Len(s)) = suffix

RECURSIVE Str(_)
\* str(n) of a non-negative integer
Str(n) == IF n < 10 THEN <<DigitChars[n + 1]>>
          ELSE Str(n \div 10) \o <<DigitChars[(n % 10) + 1]>>

-----------------------------------------------------------------------------
(* int(text): surrounding whitespace is stripped, one sign is allowed,    *)
(* then decimal digits, with single underscores between digits.            *)

RECURSIVE LStrip(_)
LStrip(s) == IF s # <<>> /\ IsSpace(Head(s)) THEN LStrip(Tail(s)) ELSE s

RECURSIVE RStrip(_)
RStrip(s) == IF s # <<>> /\ IsSpace(s[Len(s)]) THEN RStrip(SubSeq(s, 1, Len(s) - 1)) ELSE s

RECURSIVE ScanDigits(_, _, _)
\* the digits after the sign; prev is "start", "digit" or "us"; -1 is ValueError
ScanDigits(s, acc, prev) ==
    IF s = <<>> THEN (IF prev = "digit" THEN acc ELSE -1)
    ELSE IF IsDigit(Head(s)) THEN ScanDigits(Tail(s), acc * 10 + DigitVal(Head(s)), "digit")
    ELSE IF Head(s) = "_" /\ prev = "digit" THEN ScanDigits(Tail(s), acc, "us")
    ELSE -1

\* int(text): [ok |-> FALSE] stands for ValueError
ParseInt(text) ==
    LET t    == RStrip(LStrip(text))
        sgn  == IF t # <<>> /\ Head(t) = "-" THEN -1 ELSE 1
        body == IF t # <<>> /\ Head(t) \in {"-", "+"} THEN Tail(t) ELSE t
        v    == ScanDigits(body, 0, "start")
    IN  IF v < 0 THEN [ok |-> FALSE, val |-> 0] ELSE [ok |-> TRUE, val |-> sgn * v]

\* a variant that falls back to the default when the text is not an integer
EntryValueLenient(text, default) ==
    IF text = <<>> \/ ~ParseInt(text).ok
    THEN [ok |-> TRUE, val |-> default] ELSE ParseInt(text)

\* int(entry.text()) if entry.text() else default
EntryValue(text, default) ==
    IF text = <<>> THEN [ok |-> TRUE, val |-> default] ELSE ParseInt(text)

-----------------------------------------------------------------------------
(* n / d as a double, then "%.2f".  n / d is the double nearest to the     *)
(* quotient (ties to even); the format rounds that double to hundredths,   *)
(* so a quotient that lies exactly between two hundredths is displayed     *)
(* according to the side on which its double falls.                        *)

MantissaBits == 53

RECURSIVE BitLen(_)
BitLen(n) == IF n = 0 THEN 0 ELSE 1 + BitLen(n \div 2)

RECURSIVE SkipZeroBits(_, _)
\* remainder in front of the first 1 bit of the fraction r / d, 0 < r < d
SkipZeroBits(r, d) == IF 2 * r < d THEN SkipZeroBits(2 * r, d) ELSE r

RECURSIVE TakeBits(_, _, _, _)
\* long division: k more bits of r / d; the result is <<remainder, last bit>>
TakeBits(r, d, k, last) ==
    IF k = 0 THEN <<r, last>>
    ELSE TakeBits((2 * r) % d, d, k - 1, (2 * r) \div d)

\* sign of double(n / d) - n / d, for n > 0 and d > 0
RoundDir(n, d) ==
    LET q0 == n \div d
        r0 == n % d
        st == IF q0 > 0
              THEN TakeBits(r0, d, MantissaBits - BitLen(q0), q0 % 2)
              ELSE LET r1 == SkipZeroBits(r0, d)
                   IN  TakeBits(2 * r1 - d, d, MantissaBits - 1, 1)
        r  == st[1]
    IN  IF r = 0 THEN 0
        ELSE IF 2 * r < d THEN -1
        ELSE IF 2 * r > d THEN 1
        ELSE IF st[2] = 1 THEN 1 ELSE -1

\* a variant that cuts the quotient off after the second decimal
HundredthsTruncated(n, d) == (100 * n) \div d

\* hundredths displayed for the double n / d, n >= 0 and d > 0
Hundredths(n, d) ==
    LET h   == (100 * n) \div d
        rem == (100 * n) % d
    IN  IF 2 * rem < d THEN h
        ELSE IF 2 * rem > d THEN h + 1
        ELSE LET dir == RoundDir(n, d)
             IN  IF dir > 0 THEN h + 1
                 ELSE IF dir < 0 THEN h
                 ELSE IF h % 2 = 0 THEN h ELSE h + 1

\* f"{num / den:.2f}" for den > 0
Format2f(num, den) ==
    LET n == IF num < 0 THEN -num ELSE num
        h == Hundredths(n, den)
    IN  (IF num < 0 THEN <<"-">> ELSE <<>>)
        \o Str(h \div 100) \o <<".">>
        \o <<DigitChars[((h % 100) \div 10) + 1], DigitChars[(h % 10) + 1]>>

-----------------------------------------------------------------------------
(* EpochCalculator                                                         *)

Label(msg, num) == [msg |-> msg, num |-> num]

\* a variant whose test for positive values leaves out batch
calculate_epochs_unchecked_batch(imagesText, repeatsText, batchText, stepsText) ==
    LET images  == EntryValue(imagesText, 0)
        repeats == EntryValue(repeatsText, 0)
        batch   == EntryValue(batchText, 0)
        steps   == EntryValue(stepsText, 2000)
    IN  IF ~(images.ok /\ repeats.ok /\ batch.ok /\ steps.ok)
        THEN Label("Invalid input. Enter integers only.", <<>>)
        ELSE IF images.val > 0 /\ repeats.val > 0
        THEN Label("Optimal Epochs: ",
                   Format2f(steps.val * batch.val, images.val * repeats.val))
        ELSE Label("Enter valid positive integers.", <<>>)

\* the text calculate_epochs puts in result_label
calculate_epochs(imagesText, repeatsText, batchText, stepsText) ==
    LET images  == EntryValue(imagesText, 0)
        repeats == EntryValue(repeatsText, 0)
        batch   == EntryValue(batchText, 0)
        steps   == EntryValue(stepsText, 2000)
    IN  IF ~(images.ok /\ repeats.ok /\ batch.ok /\ steps.ok)
        THEN Label("Invalid input. Enter integers only.", <<>>)
        ELSE IF images.val > 0 /\ repeats.val > 0 /\ batch.val > 0
        THEN Label("Optimal Epochs: ",
                   Format2f(steps.val * batch.val, images.val * repeats.val))
        ELSE Label("Enter valid positive integers.", <<>>)

-----------------------------------------------------------------------------
(* The file system the viewer is run against                               *)

MAX_IMAGES_TO_DISPLAY == 50

\* number of image files in the DATASETS folder, which is over the cap
BigCount == 52

\* number of ImageLoaderThread objects a behaviour creates
MaxScans == 2

AppName == <<"a", "p", "p">>

SCRIPT_DIR == <<AppName>>

DATASET_FOLDER_NAMES == << <<"A", "I">>,
                           <<"D", "a", "t", "a", "s", "e", "t">>,
                           <<"D", "A", "T", "A", "S", "E", "T", "S">> >>

ImageExtensions == << <<".", "p", "n", "g">>,
                      <<".", "j", "p", "g">>,
                      <<".", "j", "p", "e", "g">>,
                      <<".", "b", "m", "p">> >>

\* os.path.join(directory, f)
Join(directory, f) == Append(directory, f)

ThemesName == <<"t", "h", "e", "m", "e", "s">>

DatasetsName == <<"D", "A", "T", "A", "S", "E", "T", "S">>

DataName == <<"d", "a", "t", "a">>

DataSetName == <<"D", "a", "t", "a", "S", "e", "t">>

AiName == <<"a", "i">>

PicsName == <<"p", "i", "c", "s">>

OldName == <<"o", "l", "d">>

NotesName == <<"n", "o", "t", "e", "s", ".", "t", "x", "t">>

CorruptName == <<"c", ".", "j", "p", "e", "g">>

AppDir == SCRIPT_DIR

DataDir == <<DataName>>

PicsDir == <<PicsName>>

\* file names as a camera or an export writes them: extensions in mixed case
MixedExtensions == << <<".", "p", "n", "g">>,
                      <<".", "J", "P", "G">>,
                      <<".", "j", "p", "e", "g">>,
                      <<".", "B", "m", "p">> >>

GenName(prefix, i) == prefix \o Str(i) \o MixedExtensions[(i % 4) + 1]

\* the directories that exist
Directories ==
    {AppDir, Join(AppDir, ThemesName), Join(AppDir, DatasetsName),
     DataDir, Join(DataDir, DataSetName),
     PicsDir, Join(PicsDir, OldName)}

\* the entries of every directory, in listing order
Listing ==
  [directory \in Directories |->
    CASE directory = AppDir  -> <<ThemesName, DatasetsName>>
      [] directory = Join(AppDir, DatasetsName) ->
            <<NotesName>> \o [i \in 1..BigCount |-> GenName(<<"i">>, i)]
      [] directory = DataDir -> <<NotesName, DataSetName, DatasetsName, AiName>>
      [] directory = Join(DataDir, DataSetName) ->
            << <<"x", ".", "p", "n", "g">>, <<"y", ".", "p", "n", "g">> >>
      [] directory = PicsDir ->
            << <<"a", ".", "p", "n", "g">>, <<"b", ".", "J", "P", "G">>, NotesName,
               CorruptName, OldName, <<"d", ".", "B", "m", "p">>,
               <<"e", ".", "P", "N", "G">>, <<"f", ".", "j", "p", "g">>,
               <<"g", ".", "p", "n", "g">>, <<"h", ".", "g", "i", "f">> >>
            \o [i \in 1..(MAX_IMAGES_TO_DISPLAY - 7) |-> GenName(<<"p">>, i)]
      [] OTHER -> <<>>]

\* os.listdir(directory), for a directory that exists
ListDir(directory) == IF directory \in Directories THEN Listing[directory] ELSE <<>>

\* os.path.isdir(path)
IsDir(path) == path \in Directories

\* os.path.exists(path)
Exists(path) ==
    \/ IsDir(path)
    \/ /\ Len(path) > 1
       /\ IsDir(SubSeq(path, 1, Len(path) - 1))
       /\ \E i \in 1..Len(ListDir(SubSeq(path, 1, Len(path) - 1))) :
              ListDir(SubSeq(path, 1, Len(path) - 1))[i] = path[Len(path)]

\* every path a listing can produce
AllPaths ==
    UNION {{Join(d, ListDir(d)[i]) : i \in 1..Len(ListDir(d))} : d \in Directories}

\* QImageReader.read() gives a non-null image: the file c.jpeg is damaged
Decodable(path) ==
    /\ ~IsDir(path)
    /\ path # Join(PicsDir, CorruptName)

\* the directories QFileDialog.getExistingDirectory can hand to load_images
Folders == {AppDir, DataDir, PicsDir}

-----------------------------------------------------------------------------
(* ImageLoaderThread.run                                                   *)

\* f.lower().endswith(('.png', '.jpg', '.jpeg', '.bmp'))
IsImageName(f) ==
    LET lower == Lower(f)
    IN  \E i \in 1..Len(ImageExtensions) : EndsWith(lower, ImageExtensions[i])

\* [os.path.join(directory, f) for f in os.listdir(directory) if IsImageName(f)]
FilterImages(directory) ==
    LET kept == SelectSeq(ListDir(directory), IsImageName)
    IN  [i \in 1..Len(kept) |-> Join(directory, kept[i])]

\* a variant that treats a listing of exactly the cap as too long
ScanResultAtCap(directory) ==
    LET loaded_image_paths == FilterImages(directory)
    IN  IF Len(loaded_image_paths) >= MAX_IMAGES_TO_DISPLAY
        THEN [paths      |-> SubSeq(loaded_image_paths, 1, MAX_IMAGES_TO_DISPLAY),
              all_loaded |-> FALSE]
        ELSE [paths |-> loaded_image_paths, all_loaded |-> TRUE]

\* the arguments of image_loaded_signal.emit for a directory that exists
ScanResult(directory) ==
    LET loaded_image_paths == FilterImages(directory)
    IN  IF Len(loaded_image_paths) > MAX_IMAGES_TO_DISPLAY
        THEN [paths      |-> SubSeq(loaded_image_paths, 1, MAX_IMAGES_TO_DISPLAY),
              all_loaded |-> FALSE]
        ELSE [paths |-> loaded_image_paths, all_loaded |-> TRUE]

-----------------------------------------------------------------------------
(* ImageViewer                                                             *)

\* a variant that compares the names without lower()
find_matching_exact_case(directory) ==
    LET Matches(d) ==
            /\ IsDir(Join(directory, d))
            /\ \E k \in 1..Len(DATASET_FOLDER_NAMES) : d = DATASET_FOLDER_NAMES[k]
    IN  SelectSeq(ListDir(directory), Matches)

\* [d for d in os.listdir(directory) if os.path.isdir(os.path.join(directory, d))
\*  and any(d.lower() == name.lower() for name in DATASET_FOLDER_NAMES)]
find_matching_dataset_dirs(directory) ==
    LET Matches(d) ==
            /\ IsDir(Join(directory, d))
            /\ \E k \in 1..Len(DATASET_FOLDER_NAMES) :
                   Lower(d) = Lower(DATASET_FOLDER_NAMES[k])
    IN  SelectSeq(ListDir(directory), Matches)

\* a variant that never looks in the cache
load_and_cache_image_uncached(st, img_path) ==
    IF Decodable(img_path)
    THEN [st EXCEPT !.cache    = @ \cup {img_path},
                    !.decodes  = [@ EXCEPT ![img_path] = @ + 1],
                    !.requests = [@ EXCEPT ![img_path] = @ + 1],
                    !.null     = FALSE]
    ELSE [st EXCEPT !.decodes  = [@ EXCEPT ![img_path] = @ + 1],
                    !.requests = [@ EXCEPT ![img_path] = @ + 1],
                    !.null     = TRUE]

\* load_and_cache_image(img_path) in the state st; null is pixmap.isNull()
load_and_cache_image(st, img_path) ==
    IF img_path \notin st.cache
    THEN IF Decodable(img_path)
         THEN [st EXCEPT !.cache    = @ \cup {img_path},
                         !.decodes  = [@ EXCEPT ![img_path] = @ + 1],
                         !.requests = [@ EXCEPT ![img_path] = @ + 1],
                         !.null     = FALSE]
         ELSE [st EXCEPT !.decodes  = [@ EXCEPT ![img_path] = @ + 1],
                         !.requests = [@ EXCEPT ![img_path] = @ + 1],
                         !.null     = TRUE]
    ELSE [st EXCEPT !.requests = [@ EXCEPT ![img_path] = @ + 1],
                    !.null     = FALSE]

\* a variant whose rows wrap one column late
PlaceWidgetWideRow(st, img_path) ==
    [st EXCEPT !.widgets = Append(@, [path |-> img_path, row |-> st.row, col |-> st.col]),
               !.col     = IF st.col + 1 > 5 THEN 0 ELSE st.col + 1,
               !.row     = IF st.col + 1 > 5 THEN st.row + 1 ELSE st.row]

\* the body of the loop of display_images after a pixmap that is not null:
\* addWidget(img_label, row, col), then the next cell
PlaceWidget(st, img_path) ==
    [st EXCEPT !.widgets = Append(@, [path |-> img_path, row |-> st.row, col |-> st.col]),
               !.col     = IF st.col + 1 >= 5 THEN 0 ELSE st.col + 1,
               !.row     = IF st.col + 1 >= 5 THEN st.row + 1 ELSE st.row]

RECURSIVE DisplayLoop(_, _)
\* for img_path in paths: ... ; a null pixmap is skipped (continue)
DisplayLoop(st, paths) ==
    IF paths = <<>> THEN st
    ELSE LET pixmap == load_and_cache_image(st, Head(paths))
         IN  IF pixmap.null
             THEN DisplayLoop(pixmap, Tail(paths))
             ELSE DisplayLoop(PlaceWidget(pixmap, Head(paths)), Tail(paths))

\* display_images over self.image_paths = paths
display_images(paths) ==
    DisplayLoop([cache |-> image_cache, decodes |-> decodes, requests |-> requests,
                 widgets |-> <<>>, row |-> 0, col |-> 0, null |-> FALSE], paths)

\* a variant that sets the text without running calculate_epochs
update_image_count_silent(image_count) ==
    /\ images_entry' = Str(image_count)
    /\ UNCHANGED <<repeats_entry, batch_entry, steps_entry, result_label>>

\* update_image_count(image_count): setText emits textChanged, which runs
\* calculate_epochs, when the text differs from the one in the entry
update_image_count(image_count) ==
    IF Str(image_count) = images_entry
    THEN UNCHANGED formVars
    ELSE /\ images_entry' = Str(image_count)
         /\ result_label' = calculate_epochs(Str(image_count), repeats_entry,
                                             batch_entry, steps_entry)
         /\ UNCHANGED <<repeats_entry, batch_entry, steps_entry>>

Ev(op, dir, sel) == [op |-> op, dir |-> dir, sel |-> sel]

NoDialog == [open |-> FALSE, directories |-> <<>>, chosen |-> <<>>]

\* start_loading_images(directory).  clear_image_layout marks the widgets with
\* deleteLater; they are gone when the UI thread is back in its event loop,
\* which is before it handles any emission of the thread started here.  The
\* thread object that self.loader_thread referred to is dropped; a thread that
\* is still in run() goes on and emits.
start_loading_images(directory) ==
    /\ Len(threads) < MaxScans
    /\ image_paths' = <<>>
    /\ grid_layout' = <<>>
    /\ threads' = Append(threads, [directory |-> directory, pc |-> "running"])
    /\ UNCHANGED <<formVars, image_cache, image_count_label, pending, decodes,
                   requests, rendered>>

\* browse_directory, with the folder the file dialog returns, and load_images
browse_directory(folder) ==
    /\ ~dialog.open
    /\ ev' = Ev("load_images", folder, <<>>)
    /\ IF ~Exists(folder)
       THEN /\ image_count_label' = Label("Error: Directory does not exist.", <<>>)
            /\ UNCHANGED <<formVars, image_paths, image_cache, grid_layout, threads,
                           pending, dialog, decodes, requests, rendered>>
       ELSE IF find_matching_dataset_dirs(folder) # <<>>
       THEN /\ dialog' = [open |-> TRUE,
                          directories |-> find_matching_dataset_dirs(folder),
                          chosen |-> folder]
            /\ UNCHANGED <<formVars, image_paths, image_cache, grid_layout,
                           image_count_label, threads, pending, decodes, requests,
                           rendered>>
       ELSE /\ start_loading_images(folder)
            /\ UNCHANGED dialog

\* the Ok button of the dialog: accepted is connected to on_directory_selected
\* only, so the dialog stays open
on_directory_selected(i) ==
    /\ dialog.open
    /\ i \in 1..Len(dialog.directories)
    /\ ev' = Ev("on_directory_selected", dialog.chosen, dialog.directories[i])
    /\ start_loading_images(Join(SCRIPT_DIR, dialog.directories[i]))
    /\ UNCHANGED dialog

\* the Cancel button of the dialog: dialog.reject
dialog_reject ==
    /\ dialog.open
    /\ dialog' = NoDialog
    /\ ev' = Ev("reject", dialog.chosen, <<>>)
    /\ UNCHANGED <<formVars, image_paths, image_cache, grid_layout, image_count_label,
                   threads, pending, decodes, requests, rendered>>

\* ImageLoaderThread.run of thread t.  os.listdir raises for a directory that
\* does not exist and the thread ends without emitting.
run(t) ==
    /\ t \in 1..Len(threads)
    /\ threads[t].pc = "running"
    /\ threads' = [threads EXCEPT ![t].pc = "done"]
    /\ ev' = Ev("run", threads[t].directory, <<>>)
    /\ IF IsDir(threads[t].directory)
       THEN LET emitted == ScanResult(threads[t].directory)
            IN  pending' = Append(pending, [paths      |-> emitted.paths,
                                            all_loaded |-> emitted.all_loaded,
                                            thread     |-> t])
       ELSE UNCHANGED pending
    /\ UNCHANGED <<formVars, image_paths, image_cache, grid_layout, image_count_label,
                   dialog, decodes, requests, rendered>>

\* update_images(image_paths, all_loaded) for the oldest queued emission
update_images ==
    /\ pending # <<>>
    /\ LET m  == Head(pending)
           st == display_images(m.paths)
       IN  /\ pending' = Tail(pending)
           /\ image_paths' = m.paths
           /\ image_count_label' =
                  IF ~m.all_loaded
                  THEN Label("Too many images. Displaying ", Str(MAX_IMAGES_TO_DISPLAY))
                  ELSE Label("Total Images Found: ", Str(Len(m.paths)))
           /\ update_image_count(Len(m.paths))
           /\ image_cache' = st.cache
           /\ decodes' = st.decodes
           /\ requests' = st.requests
           /\ grid_layout' = grid_layout \o st.widgets
           /\ rendered' = st.widgets
           /\ ev' = Ev("update_images", threads[m.thread].directory, <<>>)
    /\ UNCHANGED <<threads, dialog>>

-----------------------------------------------------------------------------
(* The form: any edit of an entry emits textChanged                        *)

\* the texts typed into each entry
EntrySamples(entry) ==
    CASE entry = "images" ->
            { <<>>, <<"0">>, <<"1">>, <<"3">>, <<"5">>, <<"8">>, <<"-", "1">>,
              <<" ", "4", "_", "0", "0", " ">>, <<"a">>, <<"1", ".", "5">> }
      [] entry = "repeats" ->
            { <<>>, <<"0">>, <<"1">>, <<"5">>, <<"+", "1">>, <<"_", "1">> }
      [] entry = "batch" ->
            { <<>>, <<"0">>, <<"1">>, <<"3">>, <<" ">> }
      [] OTHER ->
            { <<>>, <<"1">>, <<"3">>, <<"-", "1">>, <<"a">>, <<"2", "0", "0", "0">> }

Entries == {"images", "repeats", "batch", "steps"}

\* the user changes the text of one entry
edit_entry(entry, text) ==
    /\ ~dialog.open
    /\ text # (CASE entry = "images" -> images_entry [] entry = "repeats" -> repeats_entry
                 [] entry = "batch" -> batch_entry [] OTHER -> steps_entry)
    /\ images_entry'  = IF entry = "images"  THEN text ELSE images_entry
    /\ repeats_entry' = IF entry = "repeats" THEN text ELSE repeats_entry
    /\ batch_entry'   = IF entry = "batch"   THEN text ELSE batch_entry
    /\ steps_entry'   = IF entry = "steps"   THEN text ELSE steps_entry
    /\ result_label'  = calculate_epochs(images_entry', repeats_entry', batch_entry',
                                         steps_entry')
    /\ ev' = Ev("calculate_epochs", <<>>, <<>>)
    /\ UNCHANGED viewerVars

-----------------------------------------------------------------------------
(* Specifications                                                          *)

\* the window after construction
Init ==
    /\ images_entry = <<>>
    /\ repeats_entry = <<>>
    /\ batch_entry = <<>>
    /\ steps_entry = <<"2", "0", "0", "0">>
    /\ result_label = Label("Optimal Epochs: ", <<>>)
    /\ image_paths = <<>>
    /\ image_cache = {}
    /\ grid_layout = <<>>
    /\ image_count_label = Label("Total Images Found: ", <<"0">>)
    /\ threads = <<>>
    /\ pending = <<>>
    /\ dialog = NoDialog
    /\ decodes = [p \in AllPaths |-> 0]
    /\ requests = [p \in AllPaths |-> 0]
    /\ rendered = <<>>
    /\ ev = Ev("init", <<>>, <<>>)

NextForm == \E entry \in Entries : \E text \in EntrySamples(entry) : edit_entry(entry, text)

\* the epoch form alone
SpecForm == Init /\ [][NextForm]_vars

\* the window once the user has typed "a", "5" and "1" into the first three
\* entries: result_label is what the last textChanged left
InitFilled ==
    /\ images_entry = <<"a">>
    /\ repeats_entry = <<"5">>
    /\ batch_entry = <<"1">>
    /\ steps_entry = <<"2", "0", "0", "0">>
    /\ result_label = calculate_epochs(images_entry, repeats_entry, batch_entry, steps_entry)
    /\ image_paths = <<>>
    /\ image_cache = {}
    /\ grid_layout = <<>>
    /\ image_count_label = Label("Total Images Found: ", <<"0">>)
    /\ threads = <<>>
    /\ pending = <<>>
    /\ dialog = NoDialog
    /\ decodes = [p \in AllPaths |-> 0]
    /\ requests = [p \in AllPaths |-> 0]
    /\ rendered = <<>>
    /\ ev = Ev("init", <<>>, <<>>)

Next ==
    \/ \E folder \in Folders : browse_directory(folder)
    \/ \E i \in 1..Len(dialog.directories) : on_directory_selected(i)
    \/ dialog_reject
    \/ \E t \in 1..MaxScans : run(t)
    \/ update_images

\* the image viewer, with the form it writes to
Spec == InitFilled /\ [][Next]_vars

-----------------------------------------------------------------------------
(* Properties of the epoch form (SpecForm)                                 *)

EpochsMsg == "Optimal Epochs: "

PositiveMsg == "Enter valid positive integers."

InvalidMsg == "Invalid input. Enter integers only."

Calculated == ev.op = "calculate_epochs"

\* text that denotes an integer: optional blanks around an optional sign and
\* decimal digits, where single underscores may separate digits
IsIntegerText(text) ==
    \E a \in 1..Len(text), b \in 1..Len(text) :
        /\ a <= b
        /\ \A k \in 1..(a - 1) : text[k] = " "
        /\ \A k \in (b + 1)..Len(text) : text[k] = " "
        /\ LET first == IF text[a] \in {"+", "-"} THEN a + 1 ELSE a
           IN  /\ first <= b
               /\ IsDigit(text[first])
               /\ IsDigit(text[b])
               /\ \A k \in first..b :
                     \/ IsDigit(text[k])
                     \/ text[k] = "_" /\ IsDigit(text[k - 1]) /\ IsDigit(text[k + 1])

\* the entry is blank or holds integer text
Parses(text) == text = <<>> \/ IsIntegerText(text)

\* the number an entry stands for, when it parses
ValueOf(text, default) == IF text = <<>> THEN default ELSE ParseInt(text).val

\* the text has the shape [-]d+.dd
TwoDecimals(num) ==
    LET body == IF num # <<>> /\ Head(num) = "-" THEN Tail(num) ELSE num
    IN  /\ Len(body) >= 4
        /\ body[Len(body) - 2] = "."
        /\ \A k \in 1..Len(body) : k # Len(body) - 2 => IsDigit(body[k])

\* the number of hundredths a text of that shape shows, without its sign
ShownHundredths(num) ==
    LET body == IF Head(num) = "-" THEN Tail(num) ELSE num
    IN  ParseInt(SubSeq(body, 1, Len(body) - 3)).val * 100
        + DigitVal(body[Len(body) - 1]) * 10 + DigitVal(body[Len(body)])

Abs(x) == IF x < 0 THEN -x ELSE x

\* C1: after calculate_epochs, when images, repeats and batch are positive
\* integers and steps is an integer (2000 when its entry is blank), the label
\* reads "Optimal Epochs: " followed by a number with exactly two decimals that
\* is (steps * batch) / (images * repeats) rounded to the hundredth: it is
\* within half a hundredth of the quotient and carries its sign.
C1_EpochsFormula ==
    (/\ Calculated
     /\ IsIntegerText(images_entry) /\ IsIntegerText(repeats_entry)
     /\ IsIntegerText(batch_entry) /\ Parses(steps_entry)
     /\ ValueOf(images_entry, 0) > 0 /\ ValueOf(repeats_entry, 0) > 0
     /\ ValueOf(batch_entry, 0) > 0)
    => LET num == ValueOf(steps_entry, 2000) * ValueOf(batch_entry, 0)
           den == ValueOf(images_entry, 0) * ValueOf(repeats_entry, 0)
       IN  /\ result_label.msg = EpochsMsg
           /\ TwoDecimals(result_label.num)
           /\ (Head(result_label.num) = "-") <=> (num < 0)
           /\ 2 * Abs(ShownHundredths(result_label.num) * den - 100 * Abs(num)) <= den

\* 2000 / 3 with the steps entry blank is shown as 666.67
C1_Witness ==
    /\ Calculated
    /\ images_entry = <<"3">> /\ repeats_entry = <<"1">> /\ batch_entry = <<"1">>
    /\ steps_entry = <<>>
    /\ result_label = Label(EpochsMsg, <<"6", "6", "6", ".", "6", "7">>)

\* an entry that counts as 0: blank, or integer text of value 0
IsZero(text) == Parses(text) /\ ValueOf(text, 0) = 0

SomeZero == IsZero(images_entry) \/ IsZero(repeats_entry) \/ IsZero(batch_entry)

AllParse ==
    /\ Parses(images_entry) /\ Parses(repeats_entry)
    /\ Parses(batch_entry) /\ Parses(steps_entry)

\* C2 as stated: after calculate_epochs, when images, repeats or batch is 0 (a
\* blank entry counts as 0), the label is "Enter valid positive integers.",
\* whatever the other entries hold.
C2_ZeroAlwaysPositiveMsg ==
    (Calculated /\ SomeZero) => result_label.msg = PositiveMsg

\* C2 amended: after calculate_epochs, when images, repeats or batch is 0 (a
\* blank entry counts as 0), the label is never a computed number; it is
\* "Enter valid positive integers." when every non-blank entry, steps
\* included, holds integer text, and "Invalid input. Enter integers only."
\* when one of them does not.
C2_ZeroNeverComputed ==
    (Calculated /\ SomeZero)
    => /\ result_label.msg # EpochsMsg
       /\ result_label.num = <<>>
       /\ AllParse => result_label.msg = PositiveMsg
       /\ ~AllParse => result_label.msg = InvalidMsg

\* batch is "0" while images and repeats are positive
C2_Witness ==
    /\ Calculated
    /\ images_entry = <<"8">> /\ repeats_entry = <<"5">> /\ batch_entry = <<"0">>
    /\ steps_entry = <<"2", "0", "0", "0">>
    /\ result_label = Label(PositiveMsg, <<>>)

\* C3: after calculate_epochs, when the images, repeats or batch entry holds
\* non-blank text that is not an integer, the label is "Invalid input. Enter
\* integers only.", whatever the other entries hold.
C3_NonIntegerInvalid ==
    (/\ Calculated
     /\ \E text \in {images_entry, repeats_entry, batch_entry} : ~Parses(text))
    => result_label = Label(InvalidMsg, <<>>)

\* repeats holds "_1" while images and batch are positive integers
C3_Witness ==
    /\ Calculated
    /\ images_entry = <<"8">> /\ repeats_entry = <<"_", "1">> /\ batch_entry = <<"3">>
    /\ result_label = Label(InvalidMsg, <<>>)

-----------------------------------------------------------------------------
(* Properties of the image viewer (Spec)                                   *)

\* the qualifying paths of every directory, in listing order
Qualifying == [d \in Directories |-> FilterImages(d)]

\* C4: every emission of a scan of a directory with n qualifying entries
\* carries, when n > 50, the first 50 qualifying paths in listing order with
\* all_loaded = FALSE (truncated), and when n <= 50 all n paths in listing
\* order with all_loaded = TRUE (not truncated); a scan of a directory that
\* exists emits.
C4_ScanDelivers ==
    /\ \A k \in 1..Len(pending) :
          LET m == pending[k]
              q == Qualifying[threads[m.thread].directory]
          IN  /\ Len(q) > 50 => m.paths = SubSeq(q, 1, 50) /\ ~m.all_loaded
              /\ Len(q) <= 50 => m.paths = q /\ m.all_loaded
    /\ (ev.op = "run" /\ IsDir(ev.dir))
       => /\ pending # <<>>
          /\ threads[pending[Len(pending)].thread].directory = ev.dir

\* a scan of exactly 50 images and a scan of more than 50 are both queued
C4_Witness ==
    \E j \in 1..Len(pending), k \in 1..Len(pending) :
        /\ pending[j].all_loaded /\ Len(pending[j].paths) = 50
        /\ ~pending[k].all_loaded /\ Len(pending[k].paths) = 50
        /\ Len(Qualifying[threads[pending[k].thread].directory]) > 50

Delivered == ev.op = "update_images"

\* C5 as stated: after update_images the images entry holds the decimal string
\* of the number of images displayed in the grid for that scan.
C5_EntryIsDisplayedCount ==
    Delivered => images_entry = Str(Len(rendered))

\* C5 amended: after update_images the images entry holds the decimal string
\* of the number of paths the scan delivered (len(image_paths), which counts
\* the paths that failed to decode and are not displayed), whatever it held
\* before, the other entries are as before, and the result label is the one
\* calculate_epochs gives for that number.
C5_EntryIsPathCount ==
    Delivered
    => /\ images_entry = Str(Len(image_paths))
       /\ repeats_entry = <<"5">> /\ batch_entry = <<"1">>
       /\ steps_entry = <<"2", "0", "0", "0">>
       /\ result_label = calculate_epochs(Str(Len(image_paths)), repeats_entry,
                                          batch_entry, steps_entry)
       /\ Len(image_paths) > 0 => result_label.msg = EpochsMsg

\* /pics: 50 paths delivered, 49 displayed: the entry reads "50", the label 8.00
C5_Witness ==
    /\ Delivered
    /\ Len(image_paths) = 50 /\ Len(rendered) = 49
    /\ images_entry = <<"5", "0">>
    /\ result_label = Label(EpochsMsg, <<"8", ".", "0", "0">>)

\* C6 as stated: a path requested from load_and_cache_image, however often,
\* has been decoded exactly once.
C6_OneDecodePerPath ==
    \A p \in AllPaths : requests[p] >= 1 => decodes[p] = 1

\* C6 amended: a path whose decode succeeds has been decoded exactly once
\* however often it is requested, and is in the cache; a path whose decode
\* fails is not cached and is decoded again on every request.
C6_OneDecodePerCachedPath ==
    \A p \in AllPaths :
        /\ (requests[p] >= 1 /\ Decodable(p)) => decodes[p] = 1 /\ p \in image_cache
        /\ (requests[p] >= 1 /\ ~Decodable(p)) => decodes[p] = requests[p] /\ p \notin image_cache
        /\ requests[p] = 0 => decodes[p] = 0 /\ p \notin image_cache

\* a cached path was requested twice and decoded once
C6_Witness ==
    \E p \in AllPaths : requests[p] >= 2 /\ decodes[p] = 1 /\ p \in image_cache

AliasNames == { <<"a", "i">>,
                <<"d", "a", "t", "a", "s", "e", "t">>,
                <<"d", "a", "t", "a", "s", "e", "t", "s">> }

\* the directory has an immediate child directory named like an alias
HasAliasChild(directory) ==
    \E k \in 1..Len(ListDir(directory)) :
        /\ IsDir(Join(directory, ListDir(directory)[k]))
        /\ Lower(ListDir(directory)[k]) \in AliasNames

\* C7: after load_images on a directory that exists, the selection dialog is
\* open exactly when the directory has a child directory whose name is, in
\* any case, AI, Dataset or DATASETS; when it has none, a scan of the chosen
\* directory itself has been started.
C7_PromptIffAliasChild ==
    (ev.op = "load_images" /\ Exists(ev.dir))
    => /\ dialog.open <=> HasAliasChild(ev.dir)
       /\ dialog.open => dialog.chosen = ev.dir /\ dialog.directories # <<>>
       /\ ~HasAliasChild(ev.dir)
          => /\ threads # <<>>
             /\ threads[Len(threads)] = [directory |-> ev.dir, pc |-> "running"]

\* the dialog is open for /data, whose child directory is named "DataSet"
C7_Witness ==
    /\ ev.op = "load_images" /\ ev.dir = DataDir
    /\ dialog.open /\ dialog.directories = <<DataSetName>>

Undecodable(paths) == {k \in 1..Len(paths) : ~Decodable(paths[k])}

\* C8: after update_images for paths of which exactly one fails to decode,
\* display_images has added one widget fewer than there are paths: the
\* decodable paths in their order, the k-th in row (k-1) div 5 and column
\* (k-1) mod 5, as the last widgets of the grid; the status label is not an
\* error text.
C8_SkipsUndecodable ==
    (Delivered /\ Cardinality(Undecodable(image_paths)) = 1)
    => /\ Len(rendered) = Len(image_paths) - 1
       /\ [k \in 1..Len(rendered) |-> rendered[k].path]
             = SelectSeq(image_paths, Decodable)
       /\ \A k \in 1..Len(rendered) :
             rendered[k].row = (k - 1) \div 5 /\ rendered[k].col = (k - 1) % 5
       /\ Len(grid_layout) >= Len(rendered)
       /\ SubSeq(grid_layout, Len(grid_layout) - Len(rendered) + 1, Len(grid_layout)) = rendered
       /\ image_count_label = Label("Total Images Found: ", Str(Len(image_paths)))

\* /pics: 50 paths, the third is damaged; the sixth widget opens row 1
C8_Witness ==
    /\ Delivered
    /\ Len(image_paths) = 50 /\ ~Decodable(image_paths[3])
    /\ Len(rendered) = 49
    /\ rendered[3].path = image_paths[4]
    /\ rendered[6].row = 1 /\ rendered[6].col = 0

\* C9: the grid never holds more than 50 thumbnails.
C9_GridWithinCap == Len(grid_layout) <= MAX_IMAGES_TO_DISPLAY

\* C10: after the user confirms the folder name d in the dialog shown for the
\* chosen directory D, the scan that was started is of the folder d inside D.
C10_ScansInsideChosen ==
    ev.op = "on_directory_selected"
    => threads[Len(threads)].directory = Join(ev.dir, ev.sel)

=============================================================================
